---- MODULE Spec2Model ----
(***************************************************************************)
(* Order / payment transactional core of the Chiya Mantralaya management   *)
(* system: the orders, payments, daily_revenue, cafe_tables and audit_logs *)
(* tables, the row level security policies on them, the RPC functions      *)
(* confirm_payment, confirm_split_payment, edit_order and verify_employee, *)
(* and the client handlers that write to the store directly                *)
(* (handleStatusUpdate, OrderModal.handleSubmit, handleDeleteTable).       *)
(*                                                                         *)
(* Money is counted in thousandths of a currency unit, so that the         *)
(* numeric(12,2) columns (which round to a hundredth) and the 0.01         *)
(* tolerance of confirm_split_payment are both exact integers.             *)
(*                                                                         *)
(* Every statement runs at READ COMMITTED: a plpgsql function sees, at     *)
(* each statement, whatever has been committed by then; SELECT ... FOR     *)
(* UPDATE and UPDATE wait for the row lock of a concurrent transaction.    *)
(* A statement that would have to wait is modelled as not enabled.         *)
(***************************************************************************)
EXTENDS Integers, Sequences, FiniteSets, Bags, TLC

\* ---------------------------------------------------------------- bounds
MaxPayments == 2      \* rows of payments
MaxAudit    == 2      \* rows of audit_logs
MaxDay      == 2      \* calendar dates 1..MaxDay

\* ------------------------------------------------------------- constants
Cent      == 10       \* 0.01 currency units, in thousandths
Tolerance == 10       \* the 0.01 of confirm_split_payment

Null == "null"

Users     == {"admin1", "emp1", "emp2"}
Employees == {"emp1", "emp2"}
TableIds  == {"t1", "t2"}
Status    == {"taken", "prepared", "delivered", "paid"}
Methods   == {"cash", "online"}
Sessions  == {1, 2}          \* concurrent client connections
OrderIds  == {1, 2}          \* ids of the orders that may come to exist
Dates     == 1..MaxDay

\* profiles.role: never changed by any code path
role(u) == IF u = "admin1" THEN "admin" ELSE "employee"

\* numeric(12,2): a value is rounded to a hundredth, half away from zero
Round2(x) ==
  IF x >= 0 THEN ((x + 5) \div Cent) * Cent
            ELSE -(((-x + 5) \div Cent) * Cent)

Abs(x) == IF x < 0 THEN -x ELSE x

\* OrderModal.calculateTotal: sum of qty * price over the line items
RECURSIVE calculateTotal(_)
calculateTotal(items) ==
  IF items = <<>> THEN 0
  ELSE Head(items).qty * Head(items).price + calculateTotal(Tail(items))

\* the line item lists a client submits (jsonb array of item_id, qty, price)
ItemLists ==
  { << [item_id |-> "tea", qty |-> 1, price |-> 20] >>,
    << [item_id |-> "tea", qty |-> 1, price |-> 20],
       [item_id |-> "bun", qty |-> 1, price |-> 10] >> }

\* p_total_price values passed to edit_order
TotalInputs == {-10, 20}

\* p_cash_amount / p_online_amount values passed to confirm_split_payment
SplitAmounts == {-10, 0, 10, 15}

\* p_method values passed to confirm_payment
MethodInputs == {"cash", "online", "card"}

VARIABLES
  verified,       \* profiles.verified, per user
  cafe_tables,    \* cafe_tables: id -> status, for the rows that exist
  orders,         \* orders: sequence of rows, id = index
  payments,       \* payments: bag of rows (ids and times of day left out)
  daily_revenue,  \* daily_revenue: date -> [cash_total, online_total]
  audit_logs,     \* audit_logs: bag of rows
  today,          \* CURRENT_DATE of the server
  sess            \* per connection: the call in progress

vars == <<verified, cafe_tables, orders, payments, daily_revenue, audit_logs,
          today, sess>>

store == <<verified, cafe_tables, orders, payments, daily_revenue, audit_logs>>

Idle == [pc |-> "idle", op |-> Null, caller |-> Null, order_id |-> 0,
         table_id |-> Null, method |-> Null, cash |-> 0, online |-> 0,
         total |-> 0, date |-> 0, overtaken |-> FALSE]

\* is_admin() / is_verified() of the RLS migration, for caller u
is_admin(u)    == role(u) = "admin"
is_verified(u) == verified[u]

\* the order row is locked by a transaction that has not committed yet
Locked(o) == \E s \in Sessions : sess[s].pc = "locked" /\ sess[s].order_id = o

Exists(o) == o \in 1..Len(orders)

\* The profiles rows exist, with the roles and verified flags set in the
\* table editor (README, "Creating the First Admin User"); the tables have
\* been added; nothing has been ordered yet.
Init ==
  /\ verified = [u \in Users |-> u \in {"admin1", "emp1"}]
  /\ cafe_tables = [t \in TableIds |-> "empty"]
  /\ orders = <<>>
  /\ payments = EmptyBag
  /\ daily_revenue = << >>
  /\ audit_logs = EmptyBag
  /\ today = 1
  /\ sess = [s \in Sessions |-> Idle]

AuditRow(action, record_id, performed_by) ==
  [action |-> action, record_id |-> record_id, performed_by |-> performed_by]

\* ------------------------------------------------------------ verify_employee
\* the exception verify_employee raises for this call, or "ok"
verify_employee_check(caller, user_id) ==
  IF ~is_admin(caller) THEN "NotAdmin"
  ELSE IF role(user_id) # "employee" THEN "NotEmployee"
  ELSE "ok"

\* verify_employee(user_id, verified_status), called by caller
verify_employee(caller, user_id, verified_status) ==
  /\ UNCHANGED <<cafe_tables, orders, payments, daily_revenue, today, sess>>
  /\ IF verify_employee_check(caller, user_id) # "ok"
     THEN /\ UNCHANGED <<verified, audit_logs>>
     ELSE /\ BagCardinality(audit_logs) < MaxAudit
          /\ verified' = [verified EXCEPT ![user_id] = verified_status]
          /\ audit_logs' = audit_logs (+) SetToBag({AuditRow("verify_employee", user_id, caller)})

\* --------------------------------------------------------------- createOrder
\* what the INSERT into orders of OrderModal.handleSubmit comes to: the RLS
\* WITH CHECK of "Verified users can create orders" (employee_id is the
\* caller's own id) and the foreign key on table_id.  No occupancy check.
CreateCheck(caller, table) ==
  IF ~(is_verified(caller) \/ is_admin(caller)) THEN "RlsDenied"
  ELSE IF table \notin DOMAIN cafe_tables THEN "NoSuchTable"
  ELSE "ok"

\* OrderModal.handleSubmit, new order: the INSERT into orders.  The table is
\* one the client's cached list showed as empty at some earlier time (every
\* table was empty when it was added), so the client may submit any table id
\* it has ever seen.
CreateInsert(s, caller, table, items, maxOrders) ==
  /\ sess[s].pc = "idle"
  /\ items # <<>>
  /\ UNCHANGED <<verified, cafe_tables, payments, daily_revenue, audit_logs, today>>
  /\ IF CreateCheck(caller, table) # "ok"
     THEN /\ UNCHANGED <<orders, sess>>
     ELSE /\ Len(orders) < maxOrders
          /\ orders' = Append(orders,
               [table_id |-> table, employee_id |-> caller, items |-> items,
                status |-> "taken",
                total_price |-> Round2(calculateTotal(items)),
                payment_method |-> Null])
          /\ sess' = [sess EXCEPT ![s] = [Idle EXCEPT !.pc = "create_inserted",
                        !.op = "createOrder", !.caller = caller,
                        !.order_id = Len(orders) + 1, !.table_id = table]]

\* OrderModal.handleSubmit, new order: the UPDATE of cafe_tables that follows
\* the insert, a separate request.
CreateTableUpdate(s) ==
  /\ sess[s].pc = "create_inserted"
  /\ LET t == sess[s].table_id
         c == sess[s].caller
     IN  cafe_tables' =
           IF t \in DOMAIN cafe_tables /\ (is_verified(c) \/ is_admin(c))
           THEN [cafe_tables EXCEPT ![t] = "occupied"]
           ELSE cafe_tables
  /\ sess' = [sess EXCEPT ![s] = Idle]
  /\ UNCHANGED <<verified, orders, payments, daily_revenue, audit_logs, today>>

\* the client goes away (or the request fails) after the insert and before
\* the table update: nothing undoes the insert.
CreateCrash(s) ==
  /\ sess[s].pc = "create_inserted"
  /\ sess' = [sess EXCEPT ![s] = Idle]
  /\ UNCHANGED <<store, today>>

\* ------------------------------------------------------------- advanceStatus
\* RLS on orders FOR UPDATE: the row is visible to the update (USING) ...
OrdersUpdateUsing(u, row) ==
  \/ is_admin(u)
  \/ (u = row.employee_id /\ row.status \in {"taken", "prepared"} /\ is_verified(u))

\* a WITH CHECK that puts no restriction on the new status
OrdersUpdateCheck_AnyStatus(u, row) ==
  \/ is_admin(u)
  \/ (u = row.employee_id /\ is_verified(u))

\* ... and the new row must pass WITH CHECK
OrdersUpdateCheck(u, row) ==
  \/ is_admin(u)
  \/ (u = row.employee_id /\ row.status \in {"taken", "prepared", "delivered"}
        /\ is_verified(u))

\* what the UPDATE of handleStatusUpdate comes to: "NoRows" when no row
\* matches (no error is raised), "RlsDenied" when WITH CHECK fails, else "ok"
StatusUpdateCheck(caller, orderId, newStatus) ==
  IF ~Exists(orderId) THEN "NoRows"
  ELSE IF ~OrdersUpdateUsing(caller, orders[orderId]) THEN "NoRows"
  ELSE IF ~OrdersUpdateCheck(caller, [orders[orderId] EXCEPT !.status = newStatus])
       THEN "RlsDenied"
  ELSE "ok"

\* Orders.handleStatusUpdate(orderId, newStatus): one UPDATE orders SET status
handleStatusUpdate(caller, orderId, newStatus) ==
  /\ UNCHANGED <<verified, cafe_tables, payments, daily_revenue, audit_logs,
                 today, sess>>
  /\ Exists(orderId) => ~Locked(orderId)
  /\ IF StatusUpdateCheck(caller, orderId, newStatus) # "ok"
     THEN /\ UNCHANGED orders
     ELSE /\ orders' = [orders EXCEPT ![orderId].status = newStatus]

\* ---------------------------------------------------------------- edit_order
\* edit_order without its ownership check
edit_order_check_AnyOwner(caller, o, p_total_price) ==
  IF ~Exists(o) THEN "NotFound"
  ELSE IF orders[o].status \in {"paid"} THEN "OrderFinalized"
  ELSE IF role(caller) = "employee" /\ orders[o].status = "delivered"
       THEN "TooLateToEdit"
  ELSE IF p_total_price < 0 THEN "InvalidAmount"
  ELSE "ok"

\* edit_order validating the total before anything else about the order
edit_order_check_AmountFirst(caller, o, p_total_price) ==
  IF ~Exists(o) THEN "NotFound"
  ELSE IF p_total_price < 0 THEN "InvalidAmount"
  ELSE IF orders[o].status \in {"paid"} THEN "OrderFinalized"
  ELSE IF role(caller) = "employee" /\ orders[o].employee_id # Null
          /\ orders[o].employee_id # caller THEN "NotOwner"
  ELSE IF role(caller) = "employee" /\ orders[o].status = "delivered"
       THEN "TooLateToEdit"
  ELSE "ok"

\* the exception edit_order raises before its UPDATE, or "ok".  A NULL
\* employee_id makes `employee_id != user_id` NULL, which IF takes as false.
edit_order_check(caller, o, p_total_price) ==
  IF ~Exists(o) THEN "NotFound"
  ELSE IF orders[o].status \in {"paid"} THEN "OrderFinalized"
  ELSE IF role(caller) = "employee" /\ orders[o].employee_id # Null
          /\ orders[o].employee_id # caller THEN "NotOwner"
  ELSE IF role(caller) = "employee" /\ orders[o].status = "delivered"
       THEN "TooLateToEdit"
  ELSE IF p_total_price < 0 THEN "InvalidAmount"
  ELSE "ok"

\* edit_order, up to the statement before its UPDATE: the role lookup, the
\* plain SELECT of the order (no row lock, so it never waits) and the checks.
\* p_items, p_status and p_table_id are first used by the UPDATE; they are
\* chosen there.
EditRead(s, caller, o, p_total_price) ==
  /\ sess[s].pc = "idle"
  /\ UNCHANGED <<store, today>>
  /\ IF edit_order_check(caller, o, p_total_price) # "ok"
     THEN /\ UNCHANGED sess
     ELSE /\ sess' = [sess EXCEPT ![s] = [Idle EXCEPT !.pc = "edit_update",
                        !.op = "editOrder", !.caller = caller,
                        !.order_id = o, !.total = p_total_price]]

\* edit_order: UPDATE orders SET items, total_price, status, table_id
EditedRow(row, p_items, p_total_price, p_status, p_table_id) ==
  [row EXCEPT !.items = p_items,
              !.total_price = Round2(p_total_price),
              !.status = IF p_status # Null THEN p_status ELSE @,
              !.table_id = IF p_table_id # Null THEN p_table_id ELSE @]

\* an edit_order whose status override to paid also records a cash payment
EditWrite_Settles(s, p_items, p_status, p_table_id) ==
  /\ sess[s].pc = "edit_update"
  /\ ~Locked(sess[s].order_id)
  /\ p_table_id # Null => p_table_id \in DOMAIN cafe_tables
  /\ BagCardinality(audit_logs) < MaxAudit
  /\ orders' = [orders EXCEPT ![sess[s].order_id] =
       EditedRow(@, p_items, sess[s].total, p_status, p_table_id)]
  /\ audit_logs' = audit_logs (+)
       SetToBag({AuditRow("edit_order", sess[s].order_id, sess[s].caller)})
  /\ payments' =
       IF p_status = "paid" /\ BagCardinality(payments) < MaxPayments
       THEN payments (+) SetToBag({[order_id |-> sess[s].order_id,
              method |-> "cash", amount |-> Round2(sess[s].total),
              recorded_by |-> sess[s].caller, created_at |-> today]})
       ELSE payments
  /\ sess' = [sess EXCEPT ![s] = Idle]
  /\ UNCHANGED <<verified, cafe_tables, daily_revenue, today>>

\* edit_order: the UPDATE orders ... WHERE id = p_order_id, which waits for a
\* row lock and then writes the row as it is by then, and the audit insert.
EditWrite(s, p_items, p_status, p_table_id) ==
  /\ sess[s].pc = "edit_update"
  /\ LET o == sess[s].order_id
         c == sess[s].caller
     IN  /\ ~Locked(o)
         /\ IF p_table_id # Null /\ p_table_id \notin DOMAIN cafe_tables
            THEN \* foreign key violation: the function raises, nothing is kept
                 /\ UNCHANGED <<orders, audit_logs>>
            ELSE /\ BagCardinality(audit_logs) < MaxAudit
                 /\ orders' = [orders EXCEPT ![o] =
                      EditedRow(@, p_items, sess[s].total, p_status, p_table_id)]
                 /\ audit_logs' = audit_logs (+) SetToBag({AuditRow("edit_order", o, c)})
  /\ sess' = [sess EXCEPT ![s] = Idle]
  /\ UNCHANGED <<verified, cafe_tables, payments, daily_revenue, today>>

\* ----------------------------------------------------------- confirm_payment
\* confirm_payment without its role check
confirm_payment_args_AnyCaller(caller, p_method) ==
  IF p_method \notin {"cash", "online"} THEN "InvalidMethod" ELSE "ok"

\* the exception confirm_payment raises before SELECT ... FOR UPDATE, or "ok"
confirm_payment_args(caller, p_method) ==
  IF ~is_admin(caller) THEN "NotAdmin"
  ELSE IF p_method \notin {"cash", "online"} THEN "InvalidMethod"
  ELSE "ok"

\* the exception confirm_split_payment raises before SELECT ... FOR UPDATE
confirm_split_args(caller, p_cash_amount, p_online_amount) ==
  IF ~is_admin(caller) THEN "NotAdmin"
  ELSE IF p_cash_amount < 0 \/ p_online_amount < 0 THEN "InvalidAmount"
  ELSE IF p_cash_amount + p_online_amount <= 0 THEN "ZeroPayment"
  ELSE "ok"

\* both functions: the checks on the row read by SELECT ... FOR UPDATE
order_status_check(o) ==
  IF ~Exists(o) THEN "NotFound"
  ELSE IF orders[o].status = "paid" THEN "AlreadyPaid"
  ELSE IF orders[o].status # "delivered" THEN "NotYetDelivered"
  ELSE "ok"

\* a tolerance check that refuses a difference of exactly 0.01
amount_check_Strict(o, p_cash_amount, p_online_amount) ==
  IF Abs((p_cash_amount + p_online_amount) - orders[o].total_price) >= Tolerance
  THEN "AmountMismatch" ELSE "ok"

\* confirm_split_payment: total_amount against order_record.total_price
amount_check(o, p_cash_amount, p_online_amount) ==
  IF Abs((p_cash_amount + p_online_amount) - orders[o].total_price) > Tolerance
  THEN "AmountMismatch" ELSE "ok"

\* the exception raised on the row once the lock is granted, or "ok"
SettleCheck(t) ==
  IF order_status_check(t.order_id) # "ok" THEN order_status_check(t.order_id)
  ELSE IF t.op = "confirmSplitPayment"
       THEN amount_check(t.order_id, t.cash, t.online)
  ELSE "ok"

\* the exception a confirm_payment call raises on the order row as it is now
\* (the row not being locked by another transaction), or "ok"
confirm_payment_raises(caller, o, p_method) ==
  IF confirm_payment_args(caller, p_method) # "ok"
  THEN confirm_payment_args(caller, p_method)
  ELSE order_status_check(o)

\* the same for a confirm_split_payment call
confirm_split_raises(caller, o, p_cash_amount, p_online_amount) ==
  IF confirm_split_args(caller, p_cash_amount, p_online_amount) # "ok"
  THEN confirm_split_args(caller, p_cash_amount, p_online_amount)
  ELSE IF order_status_check(o) # "ok" THEN order_status_check(o)
  ELSE amount_check(o, p_cash_amount, p_online_amount)

\* a settlement transaction t arrives at SELECT ... FOR UPDATE: it waits if
\* the row is locked; otherwise it has the lock at once, and either raises
\* on the row read (nothing changes) or goes on to its writes.
ArriveAtLock(s, t) ==
  IF Exists(t.order_id) /\ Locked(t.order_id)
  THEN sess' = [sess EXCEPT ![s] = [t EXCEPT !.pc = "wait_lock"]]
  ELSE IF SettleCheck(t) # "ok"
  THEN UNCHANGED sess
  ELSE sess' = [sess EXCEPT ![s] = [t EXCEPT !.pc = "locked"]]

\* a waiting SELECT ... FOR UPDATE is granted the row lock once the holder
\* has ended; it reads the row as committed by then.  A raised exception ends
\* the transaction.
SettleLock(s) ==
  /\ sess[s].pc = "wait_lock"
  /\ UNCHANGED <<store, today>>
  /\ ~Locked(sess[s].order_id)
  /\ IF SettleCheck(sess[s]) # "ok"
     THEN sess' = [sess EXCEPT ![s] = Idle]
     ELSE sess' = [sess EXCEPT ![s] = [@ EXCEPT !.pc = "locked", !.overtaken = FALSE]]

\* confirm_payment(p_order_id, p_method) up to its first write.  The
\* statements before SELECT ... FOR UPDATE read only profiles.role, which
\* never changes, so they are taken in one step with it.  CURRENT_DATE and
\* now() are those of the transaction start.
ConfirmPaymentCall(s, caller, o, p_method) ==
  /\ sess[s].pc = "idle"
  /\ UNCHANGED <<store, today>>
  /\ IF confirm_payment_args(caller, p_method) # "ok"
     THEN UNCHANGED sess
     ELSE ArriveAtLock(s, [Idle EXCEPT !.op = "confirmPayment", !.caller = caller,
                             !.order_id = o, !.method = p_method, !.date = today])

\* confirm_split_payment(p_order_id, p_cash_amount, p_online_amount) up to
\* its first write
ConfirmSplitCall(s, caller, o, p_cash_amount, p_online_amount) ==
  /\ sess[s].pc = "idle"
  /\ UNCHANGED <<store, today>>
  /\ IF confirm_split_args(caller, p_cash_amount, p_online_amount) # "ok"
     THEN UNCHANGED sess
     ELSE ArriveAtLock(s, [Idle EXCEPT !.op = "confirmSplitPayment",
                             !.caller = caller, !.order_id = o, !.method = "split",
                             !.cash = p_cash_amount, !.online = p_online_amount,
                             !.date = today])

PaymentRow(o, method, amount, by, d) ==
  [order_id |-> o, method |-> method, amount |-> Round2(amount),
   recorded_by |-> by, created_at |-> d]

\* the payments rows one settlement inserts
PaymentRows(t, order_record) ==
  IF t.op = "confirmPayment"
  THEN SetToBag({PaymentRow(t.order_id, t.method, order_record.total_price,
                            t.caller, t.date)})
  ELSE (IF t.cash > 0
        THEN SetToBag({PaymentRow(t.order_id, "cash", t.cash, t.caller, t.date)})
        ELSE EmptyBag)
       (+)
       (IF t.online > 0
        THEN SetToBag({PaymentRow(t.order_id, "online", t.online, t.caller, t.date)})
        ELSE EmptyBag)

\* what the settlement adds to cash_total and to online_total
CashDelta(t, order_record) ==
  IF t.op = "confirmPayment"
  THEN (IF t.method = "cash" THEN order_record.total_price ELSE 0)
  ELSE t.cash

OnlineDelta(t, order_record) ==
  IF t.op = "confirmPayment"
  THEN (IF t.method = "online" THEN order_record.total_price ELSE 0)
  ELSE t.online

\* an upsert that overwrites the totals of the date instead of adding to them
UpsertRevenue_Overwrites(rev, d, cash, online) ==
  [x \in DOMAIN rev \cup {d} |->
     IF x = d THEN [cash_total |-> Round2(cash), online_total |-> Round2(online)]
              ELSE rev[x]]

\* INSERT INTO daily_revenue ... ON CONFLICT (date) DO UPDATE
UpsertRevenue(rev, d, cash, online) ==
  IF d \in DOMAIN rev
  THEN [rev EXCEPT ![d] = [cash_total   |-> Round2(@.cash_total + cash),
                           online_total |-> Round2(@.online_total + online)]]
  ELSE [x \in DOMAIN rev \cup {d} |->
          IF x = d THEN [cash_total |-> Round2(cash), online_total |-> Round2(online)]
                   ELSE rev[x]]

\* a settlement that leaves the table as it is
FreeTable_NoRelease(tabs, order_table_id) == tabs

\* IF order_table_id IS NOT NULL THEN UPDATE cafe_tables SET status = 'empty'
FreeTable(tabs, order_table_id) ==
  IF order_table_id # Null /\ order_table_id \in DOMAIN tabs
  THEN [tabs EXCEPT ![order_table_id] = "empty"]
  ELSE tabs

\* UPDATE orders SET status = 'paid', payment_method = ...
PaidRow(row, method) == [row EXCEPT !.status = "paid", !.payment_method = method]

SettleAudit(t) ==
  AuditRow(IF t.op = "confirmPayment" THEN "confirm_payment"
                                      ELSE "confirm_split_payment",
           t.order_id, t.caller)

\* both functions, from the payment insert to RETURN: the five writes and the
\* commit.  Nothing else can write the locked row in between, so order_record
\* is the row as it still is.  (overtaken is a history flag, not program
\* state: it marks the calls that were waiting for this row when it committed.)
SettleCommit(s) ==
  /\ sess[s].pc = "locked"
  /\ LET t == sess[s]
         o == t.order_id
         order_record == orders[o]
         rows == PaymentRows(t, order_record)
     IN  /\ BagCardinality(payments) + BagCardinality(rows) <= MaxPayments
         /\ BagCardinality(audit_logs) < MaxAudit
         /\ payments' = payments (+) rows
         /\ orders' = [orders EXCEPT ![o] = PaidRow(@, t.method)]
         /\ daily_revenue' = UpsertRevenue(daily_revenue, t.date,
              CashDelta(t, order_record), OnlineDelta(t, order_record))
         /\ cafe_tables' = FreeTable(cafe_tables, order_record.table_id)
         /\ audit_logs' = audit_logs (+) SetToBag({SettleAudit(t)})
  /\ sess' = [x \in Sessions |->
       IF x = s THEN Idle
       ELSE IF sess[x].pc = "wait_lock" /\ sess[x].order_id = sess[s].order_id
            THEN [sess[x] EXCEPT !.overtaken = TRUE]
       ELSE sess[x]]
  /\ UNCHANGED <<verified, today>>

\* a failed settlement whose payment insert is not rolled back
AbortedStore_KeepsPayments(s, done) ==
  [payments |-> IF done >= 1 /\ BagCardinality(payments) < MaxPayments
                THEN payments (+) PaymentRows(sess[s], orders[sess[s].order_id])
                ELSE payments,
   orders |-> orders, daily_revenue |-> daily_revenue,
   cafe_tables |-> cafe_tables, audit_logs |-> audit_logs]

\* what is left in the store of a settlement that failed after `done` of its
\* five writes: the transaction rolls back, nothing is left
AbortedStore(s, done) ==
  [payments |-> payments, orders |-> orders, daily_revenue |-> daily_revenue,
   cafe_tables |-> cafe_tables, audit_logs |-> audit_logs]

\* a statement of the settlement raises (or the connection is lost) after
\* `done` of its five writes
SettleAbort(s, done) ==
  /\ sess[s].pc = "locked"
  /\ done \in 0..4
  /\ LET kept == AbortedStore(s, done)
     IN  /\ payments' = kept.payments
         /\ orders' = kept.orders
         /\ daily_revenue' = kept.daily_revenue
         /\ cafe_tables' = kept.cafe_tables
         /\ audit_logs' = kept.audit_logs
  /\ sess' = [sess EXCEPT ![s] = Idle]
  /\ UNCHANGED <<verified, today>>

\* ---------------------------------------------------------- handleDeleteTable
\* DELETE FROM cafe_tables; orders.table_id is ON DELETE SET NULL, which
\* updates (and so locks) the referencing order rows.
handleDeleteTable(caller, id) ==
  /\ UNCHANGED <<verified, payments, daily_revenue, audit_logs, today, sess>>
  /\ IF ~is_admin(caller) \/ id \notin DOMAIN cafe_tables
     THEN /\ UNCHANGED <<cafe_tables, orders>>
     ELSE /\ \A o \in 1..Len(orders) : orders[o].table_id = id => ~Locked(o)
          /\ cafe_tables' = [t \in DOMAIN cafe_tables \ {id} |-> cafe_tables[t]]
          /\ orders' = [o \in 1..Len(orders) |->
               IF orders[o].table_id = id
               THEN [orders[o] EXCEPT !.table_id = Null] ELSE orders[o]]

\* the server's calendar date advances
Tick ==
  /\ today < MaxDay
  /\ today' = today + 1
  /\ UNCHANGED <<store, sess>>

\* the steps on orders, tables and payments, for callers and arguments drawn
\* from D.  (verify_employee and Tick are not among them: the profiles and
\* the calendar date stay as Init sets them.)
NextFor(D) ==
  \/ \E s \in Sessions, c \in D.users, t \in D.tables, i \in D.items :
       CreateInsert(s, c, t, i, D.orders)
  \/ \E s \in Sessions : CreateTableUpdate(s)
  \/ \E s \in Sessions : CreateCrash(s)
  \/ \E c \in D.users, o \in OrderIds, st \in D.advance : handleStatusUpdate(c, o, st)
  \/ \E s \in Sessions, c \in D.users, o \in OrderIds, p \in D.totals :
       EditRead(s, c, o, p)
  \/ \E s \in Sessions, i \in D.items, st \in D.status \cup {Null},
        t \in D.tables \cup {Null} : EditWrite(s, i, st, t)
  \/ \E s \in Sessions, c \in D.users, o \in OrderIds, m \in D.methods :
       ConfirmPaymentCall(s, c, o, m)
  \/ \E s \in Sessions, c \in D.users, o \in OrderIds, a \in D.split,
        b \in D.split : ConfirmSplitCall(s, c, o, a, b)
  \/ \E s \in Sessions : SettleLock(s)
  \/ \E s \in Sessions : SettleCommit(s)
  \/ \E s \in Sessions, k \in 0..4 : SettleAbort(s, k)
  \/ \E c \in D.users, t \in D.tables : handleDeleteTable(c, t)

\* One order on one table within one calendar day; the admin and a verified
\* employee call every operation with every status; amounts are whole
\* hundredths.
CoreInputs ==
  [users |-> {"admin1", "emp1"}, tables |-> {"t1"}, orders |-> 1, items |-> ItemLists,
   advance |-> Status, totals |-> TotalInputs, status |-> Status,
   methods |-> {"cash", "card"}, split |-> {-10, 0, 10}]

Next == NextFor(CoreInputs)

Spec == Init /\ [][Next]_vars

\* Amounts below a hundredth: one order on one table, the admin alone, split
\* amounts of 0.004, 0.015 and 0.02 on a total of 0.02.
CentInputs ==
  [users |-> {"admin1"}, tables |-> {"t1"}, orders |-> 1,
   items |-> {<< [item_id |-> "tea", qty |-> 1, price |-> 20] >>},
   advance |-> {"delivered"}, totals |-> {20}, status |-> {},
   methods |-> {"cash"}, split |-> {4, 15, 20}]

NextCents == NextFor(CentInputs)

SpecCents == Init /\ [][NextCents]_vars

\* Two orders on one table: the admin alone creates, edits, delivers and
\* settles, with one item list and one total.
FloorInputs ==
  [users |-> {"admin1"}, tables |-> {"t1"}, orders |-> 2,
   items |-> {<< [item_id |-> "tea", qty |-> 1, price |-> 20] >>},
   advance |-> {"delivered"}, totals |-> {20}, status |-> {},
   methods |-> {"cash"}, split |-> {10}]

NextFloor == NextFor(FloorInputs)

SpecFloor == Init /\ [][NextFloor]_vars

\* One order on one table, created by the admin or by an employee whose
\* verified flag the admin sets and clears through verify_employee.
StaffInputs ==
  [users |-> {"admin1", "emp1"}, tables |-> {"t1"}, orders |-> 1,
   items |-> {<< [item_id |-> "tea", qty |-> 1, price |-> 20] >>},
   advance |-> {"prepared", "delivered"}, totals |-> {20}, status |-> {},
   methods |-> {"cash"}, split |-> {10}]

NextStaff ==
  \/ NextFor(StaffInputs)
  \/ \E c \in {"admin1", "emp1"}, u \in {"admin1", "emp1"}, b \in BOOLEAN :
       verify_employee(c, u, b)

SpecStaff == Init /\ [][NextStaff]_vars

\* One order and two tables: the admin edits with every item list, total,
\* status override and table, and settles in cash.
EditInputs ==
  [users |-> {"admin1"}, tables |-> {"t1", "t2"}, orders |-> 1,
   items |-> ItemLists, advance |-> {"delivered"}, totals |-> TotalInputs,
   status |-> Status, methods |-> {"cash"}, split |-> {10}]

NextEdit == NextFor(EditInputs)

SpecEdit == Init /\ [][NextEdit]_vars

\* One order on one table over the calendar dates: the admin creates,
\* delivers and settles, in cash, online or split, and the date advances.
DayInputs ==
  [users |-> {"admin1"}, tables |-> {"t1"}, orders |-> 1,
   items |-> {<< [item_id |-> "tea", qty |-> 1, price |-> 20] >>},
   advance |-> {"delivered"}, totals |-> {20}, status |-> {},
   methods |-> {"cash", "online"}, split |-> {10}]

NextDays ==
  \/ NextFor(DayInputs)
  \/ Tick

SpecDays == Init /\ [][NextDays]_vars

\* Orders.canEditOrder(order), for the signed-in profile: whether the client
\* offers the edit
canEditOrder(profile, order) ==
  IF order.status = "paid" THEN FALSE
  ELSE IF role(profile) = "admin" THEN TRUE
  ELSE order.employee_id = profile /\ order.status # "delivered"

\* The store holding one order on t1, in any status and created by any user
\* or by a user whose profile has since been deleted (orders.employee_id is
\* ON DELETE SET NULL); a paid order has its cash settlement on record.
InitGate ==
  /\ verified = [u \in Users |-> u \in {"admin1", "emp1"}]
  /\ today = 1
  /\ sess = [s \in Sessions |-> Idle]
  /\ \E st \in Status, by \in Users \cup {Null} :
       LET row == [table_id |-> "t1", employee_id |-> by,
                   items |-> << [item_id |-> "tea", qty |-> 1, price |-> 20] >>,
                   status |-> st, total_price |-> 20,
                   payment_method |-> IF st = "paid" THEN "cash" ELSE Null]
           t == [Idle EXCEPT !.op = "confirmPayment", !.caller = "admin1",
                             !.order_id = 1, !.method = "cash", !.date = 1]
       IN  /\ orders = << row >>
           /\ cafe_tables = [x \in TableIds |->
                IF x = "t1" /\ st # "paid" THEN "occupied" ELSE "empty"]
           /\ payments = IF st = "paid" THEN PaymentRows(t, row) ELSE EmptyBag
           /\ daily_revenue =
                IF st = "paid" THEN UpsertRevenue(<< >>, 1, 20, 0) ELSE << >>
           /\ audit_logs =
                IF st = "paid" THEN SetToBag({SettleAudit(t)}) ELSE EmptyBag

\* every user calls edit_order on that order
NextGate ==
  \/ \E s \in Sessions, c \in Users, o \in OrderIds, p \in TotalInputs :
       EditRead(s, c, o, p)
  \/ \E s \in Sessions, i \in ItemLists, st \in Status \cup {Null} :
       EditWrite(s, i, st, Null)

SpecGate == InitGate /\ [][NextGate]_vars

TypeOK ==
  /\ verified \in [Users -> BOOLEAN]
  /\ DOMAIN cafe_tables \subseteq TableIds
  /\ Len(orders) <= Cardinality(OrderIds)
  /\ BagCardinality(payments) <= MaxPayments
  /\ BagCardinality(audit_logs) <= MaxAudit
  /\ today \in Dates

\* ------------------------------------------------------------------ ledger
\* SUM(amount) over the rows S of the bag B
RECURSIVE SumAmounts(_, _)
SumAmounts(S, B) ==
  IF S = {} THEN 0
  ELSE LET r == CHOOSE x \in S : TRUE
       IN  r.amount * CopiesIn(r, B) + SumAmounts(S \ {r}, B)

\* the rows of order o in a payments bag P, and their sum
RowsOf(P, o) == {r \in BagToSet(P) : r.order_id = o}
PaidIn(P, o) == SumAmounts(RowsOf(P, o), P)

PaymentsOf(o) == RowsOf(payments, o)
PaidAmount(o) == PaidIn(payments, o)

\* the number of settlements in an audit bag A for order o: each settlement
\* that commits writes one audit row, and audit rows are never updated or
\* deleted
RECURSIVE CountRows(_, _)
CountRows(S, B) ==
  IF S = {} THEN 0
  ELSE LET r == CHOOSE x \in S : TRUE
       IN  CopiesIn(r, B) + CountRows(S \ {r}, B)

SettledIn(A, o) ==
  CountRows({r \in BagToSet(A) :
               /\ r.action \in {"confirm_payment", "confirm_split_payment"}
               /\ r.record_id = o},
            A)

SettlementsOf(o) == SettledIn(audit_logs, o)

Admins == {u \in Users : is_admin(u)}

\* --------------------------------------------------------- get_daily_summary
\* contents of the expenses table (rows of add_expense: amount, date of
\* created_at); the table is read by get_daily_summary only
ExpenseTables ==
  { EmptyBag,
    SetToBag({[amount |-> 30, created_at |-> 1]}),
    SetToBag({[amount |-> 30, created_at |-> 1]})
      (+) SetToBag({[amount |-> 30, created_at |-> 1]})
      (+) SetToBag({[amount |-> 10, created_at |-> 2]}) }

\* SUM(CASE WHEN method = m THEN amount ELSE 0 END) over the rows S of bag B
RECURSIVE SumCase(_, _, _)
SumCase(S, B, m) ==
  IF S = {} THEN 0
  ELSE LET r == CHOOSE x \in S : TRUE
       IN  (IF r.method = m THEN r.amount ELSE 0) * CopiesIn(r, B)
             + SumCase(S \ {r}, B, m)

\* a summary that counts payment rows, COUNT(*), instead of distinct orders
get_daily_summary_CountsRows(caller, p_date, expenses) ==
  IF ~is_admin(caller) THEN [error |-> "NotAdmin"]
  ELSE LET paid  == {r \in BagToSet(payments) : r.created_at = p_date}
           spent == {r \in BagToSet(expenses) : r.created_at = p_date}
           total_revenue  == SumAmounts(paid, payments)
           total_expenses == SumAmounts(spent, expenses)
       IN  [error          |-> "ok",
            date           |-> p_date,
            total_revenue  |-> total_revenue,
            cash_revenue   |-> SumCase(paid, payments, "cash"),
            online_revenue |-> SumCase(paid, payments, "online"),
            total_expenses |-> total_expenses,
            net_profit     |-> total_revenue - total_expenses,
            order_count    |-> CountRows(paid, payments)]

\* get_daily_summary(p_date), called by caller, on the payments table as it
\* is and the expenses table given: the exception, or the json returned
get_daily_summary(caller, p_date, expenses) ==
  IF ~is_admin(caller) THEN [error |-> "NotAdmin"]
  ELSE LET paid  == {r \in BagToSet(payments) : r.created_at = p_date}
           spent == {r \in BagToSet(expenses) : r.created_at = p_date}
           total_revenue  == SumAmounts(paid, payments)
           total_expenses == SumAmounts(spent, expenses)
       IN  [error          |-> "ok",
            date           |-> p_date,
            total_revenue  |-> total_revenue,
            cash_revenue   |-> SumCase(paid, payments, "cash"),
            online_revenue |-> SumCase(paid, payments, "online"),
            total_expenses |-> total_expenses,
            net_profit     |-> total_revenue - total_expenses,
            order_count    |-> Cardinality({r.order_id : r \in paid})]

\* ------------------------------------------------------------------- claims
\* C1: once an order's status is paid, no step of any operation changes its
\* status to anything else.
C1_PaidIsTerminal ==
  [][\A o \in 1..Len(orders) :
       orders[o].status = "paid" => orders'[o].status = "paid"]_vars

\* C2: for every order at most one settlement call ever succeeds.
C2_AtMostOneSettlement ==
  \A o \in OrderIds : SettlementsOf(o) <= 1

\* C3: every paid order has payment records whose amounts sum to its
\* total_price within 0.01.
C3_PaidSumsToTotal ==
  \A o \in 1..Len(orders) :
    orders[o].status = "paid" =>
      Abs(PaidAmount(o) - orders[o].total_price) <= Tolerance

\* C4: once an order is paid, no step changes its line items or its
\* total_price.
C4_PaidImmutable ==
  [][\A o \in 1..Len(orders) :
       orders[o].status = "paid" =>
         /\ orders'[o].items = orders[o].items
         /\ orders'[o].total_price = orders[o].total_price]_vars

\* C5: a confirmPayment(order, m) call by an admin with m in {cash, online} on
\* a delivered order raises nothing, and when it returns the order is paid
\* with payment_method = m, the ledger has exactly one more row (that order,
\* method m, the total_price read under the lock) and the order's table, if
\* it has one, is empty.
C5_ConfirmPaymentEffect ==
  [][/\ \A o \in 1..Len(orders), c \in Admins, m \in {"cash", "online"} :
          orders[o].status = "delivered" => confirm_payment_raises(c, o, m) = "ok"
     /\ \A s \in Sessions :
          (/\ sess[s].pc = "locked"
           /\ sess[s].op = "confirmPayment"
           /\ sess'[s].pc = "idle"
           /\ store' # store)
          => LET t == sess[s]
                 o == t.order_id
                 tab == orders[o].table_id
             IN  /\ is_admin(t.caller)
                 /\ t.method \in {"cash", "online"}
                 /\ orders[o].status = "delivered"
                 /\ orders'[o].status = "paid"
                 /\ orders'[o].payment_method = t.method
                 /\ payments' = payments (+) SetToBag({
                      [order_id |-> o, method |-> t.method,
                       amount |-> orders[o].total_price,
                       recorded_by |-> t.caller, created_at |-> t.date]})
                 /\ (tab # Null => cafe_tables'[tab] = "empty")]_vars

\* C5 witness: an order settled in cash, its one payment row covering the
\* total, its table released
C5_Witness ==
  \E o \in 1..Len(orders) :
    /\ orders[o].status = "paid"
    /\ orders[o].payment_method = "cash"
    /\ BagCardinality(payments) = 1
    /\ PaidAmount(o) = orders[o].total_price
    /\ orders[o].table_id # Null
    /\ cafe_tables[orders[o].table_id] = "empty"
    /\ SettlementsOf(o) = 1

\* C6: of two settlement calls running concurrently on one delivered order,
\* the one that waited for the row lock while the other committed fails with
\* AlreadyPaid when the lock is granted to it.
C6_WaiterFailsAlreadyPaid ==
  [][\A s \in Sessions :
       (sess[s].pc = "wait_lock" /\ sess[s].overtaken /\ sess'[s].pc # "wait_lock")
       => /\ SettleCheck(sess[s]) = "AlreadyPaid"
          /\ sess'[s].pc = "idle"]_vars

\* the three tables only settlements write agree: an order has payment rows
\* exactly if a settlement is in the audit log for it, and the revenue
\* aggregate of each date is the sum of the ledger rows of that date
LedgerAgrees ==
  /\ \A o \in OrderIds : (PaymentsOf(o) # {}) <=> (SettlementsOf(o) >= 1)
  /\ \A r \in BagToSet(payments) : r.created_at \in DOMAIN daily_revenue
  /\ \A d \in DOMAIN daily_revenue :
       daily_revenue[d].cash_total + daily_revenue[d].online_total
         = SumAmounts({r \in BagToSet(payments) : r.created_at = d}, payments)

C8_RepeatFailsAlreadyPaid ==
  \A o \in 1..Len(orders) :
    (SettlementsOf(o) >= 1 /\ ~Locked(o)) =>
      /\ \A c \in Admins, m \in {"cash", "online"} :
           confirm_payment_raises(c, o, m) = "AlreadyPaid"
      /\ \A c \in Admins, a \in SplitAmounts, b \in SplitAmounts :
           (a >= 0 /\ b >= 0 /\ a + b = orders[o].total_price)
           => confirm_split_raises(c, o, a, b) = "AlreadyPaid"

\* C9: every settlement call by an admin on an order whose status is taken or
\* prepared raises NotYetDelivered, whatever its other arguments.
C9_NotYetDelivered ==
  \A o \in 1..Len(orders) :
    orders[o].status \in {"taken", "prepared"} =>
      /\ \A c \in Admins, m \in MethodInputs :
           confirm_payment_raises(c, o, m) = "NotYetDelivered"
      /\ \A c \in Admins, a \in SplitAmounts, b \in SplitAmounts :
           confirm_split_raises(c, o, a, b) = "NotYetDelivered"

\* C10: a settlement call by a caller who is not an admin raises NotAdmin and
\* starts no transaction, so it changes nothing; every settlement in progress
\* was called by an admin and every payment row was recorded by an admin.
C10_AdminOnly ==
  /\ \A c \in Users \ Admins, o \in OrderIds :
       /\ \A m \in MethodInputs : confirm_payment_raises(c, o, m) = "NotAdmin"
       /\ \A a \in SplitAmounts, b \in SplitAmounts :
            confirm_split_raises(c, o, a, b) = "NotAdmin"
  /\ \A s \in Sessions :
       sess[s].op \in {"confirmPayment", "confirmSplitPayment"}
       => is_admin(sess[s].caller)
  /\ \A r \in BagToSet(payments) : is_admin(r.recorded_by)

\* C10 witness: a delivered order created by a verified employee, who may not
\* settle it, and a payment recorded for an order an employee created
C10_Witness ==
  \E o \in 1..Len(orders) :
    /\ orders[o].employee_id \in Employees
    /\ is_verified(orders[o].employee_id)
    /\ orders[o].status = "paid"
    /\ PaymentsOf(o) # {}

\* C11: for an admin's confirmSplitPayment(cash, online) on a delivered order
\* the function raises InvalidAmount if an amount is negative, else
\* ZeroPayment if cash + online <= 0, else AmountMismatch if cash + online is
\* further than 0.01 from total_price, and otherwise nothing; a split
\* settlement holds the row lock (and so goes on to its writes) only on a
\* delivered order and with amounts that pass the three tests.
C11_SplitAccepted ==
  /\ \A o \in 1..Len(orders), c \in Admins, a \in SplitAmounts, b \in SplitAmounts :
       (orders[o].status = "delivered") =>
         confirm_split_raises(c, o, a, b) =
           IF a < 0 \/ b < 0 THEN "InvalidAmount"
           ELSE IF a + b <= 0 THEN "ZeroPayment"
           ELSE IF a + b - orders[o].total_price > Tolerance
                   \/ orders[o].total_price - (a + b) > Tolerance
                THEN "AmountMismatch"
           ELSE "ok"
  /\ \A s \in Sessions :
       (sess[s].pc = "locked" /\ sess[s].op = "confirmSplitPayment")
       => LET t == sess[s]
              total == orders[t.order_id].total_price
          IN  /\ t.cash >= 0 /\ t.online >= 0 /\ t.cash + t.online > 0
              /\ t.cash + t.online - total <= Tolerance
              /\ total - (t.cash + t.online) <= Tolerance
              /\ orders[t.order_id].status = "delivered"

\* C11 witness: an order settled by a split whose two amounts add up to its
\* total
C11_Witness ==
  \E o \in 1..Len(orders) :
    /\ orders[o].status = "paid"
    /\ orders[o].payment_method = "split"
    /\ Cardinality(PaymentsOf(o)) = 2
    /\ PaidAmount(o) = orders[o].total_price

\* C12: a confirmSplitPayment(cash, online) that commits adds to the ledger a
\* cash row exactly if cash > 0 and an online row exactly if online > 0, each
\* with exactly the supplied amount, no row with amount zero and no row with
\* method split, and sets the order's payment_method to split.
C12_SplitRecords ==
  [][\A s \in Sessions :
       (/\ sess[s].pc = "locked"
        /\ sess[s].op = "confirmSplitPayment"
        /\ sess'[s].pc = "idle"
        /\ store' # store)
       => LET t == sess[s]
              o == t.order_id
              row(m, a) == [order_id |-> o, method |-> m, amount |-> a,
                            recorded_by |-> t.caller, created_at |-> t.date]
          IN  /\ orders'[o].payment_method = "split"
              /\ payments' (-) payments =
                   (IF t.cash > 0 THEN SetToBag({row("cash", t.cash)}) ELSE EmptyBag)
                   (+)
                   (IF t.online > 0 THEN SetToBag({row("online", t.online)})
                                    ELSE EmptyBag)
              /\ \A r \in BagToSet(payments' (-) payments) :
                   r.amount > 0 /\ r.method \in {"cash", "online"}]_vars

C14_PaidOnlyBySettlement ==
  \A o \in 1..Len(orders) :
    orders[o].status = "paid" => SettlementsOf(o) >= 1

\* C15: a status advance (a step that changes an order's status and is not
\* part of an edit or a settlement) only moves the order to a strictly later
\* status of taken < prepared < delivered < paid.
C15_AdvanceOnlyForward ==
  [][\A o \in 1..Len(orders) :
       (/\ orders'[o].status # orders[o].status
        /\ sess' = sess
        /\ cafe_tables' = cafe_tables)
       => LET rank(st) == CASE st = "taken" -> 1 [] st = "prepared" -> 2
                            [] st = "delivered" -> 3 [] st = "paid" -> 4
          IN  rank(orders'[o].status) > rank(orders[o].status)]_vars

\* C16: every verified user, and every admin, can advance any order that is
\* taken to prepared and any order that is prepared to delivered, whoever
\* created it.
C16_AnyVerifiedUserAdvances ==
  \A o \in 1..Len(orders), c \in Users :
    (is_verified(c) \/ is_admin(c)) =>
      /\ (orders[o].status = "taken")
         => StatusUpdateCheck(c, o, "prepared") = "ok"
      /\ (orders[o].status = "prepared")
         => StatusUpdateCheck(c, o, "delivered") = "ok"

\* C17: after every step that creates an order or writes an order's items or
\* total_price, the order's total_price is the sum of qty * price over its
\* line items.
C17_TotalIsSumOfItems ==
  [][\A o \in 1..Len(orders') :
       (\/ o > Len(orders)
        \/ orders'[o].items # orders[o].items
        \/ orders'[o].total_price # orders[o].total_price)
       => orders'[o].total_price = calculateTotal(orders'[o].items)]_vars

\* C18: a step that inserts an order names a table whose status in the store
\* was empty before the step: no order is created on an occupied table.
C18_NoOrderOnOccupiedTable ==
  [][Len(orders') > Len(orders)
       => cafe_tables[orders'[Len(orders')].table_id] = "empty"]_vars

\* C19: the two writes of createOrder take effect together: an order that is
\* not paid, still references its table and whose creation is no longer in
\* progress has its table occupied.
C19_CreateAtomic ==
  \A o \in 1..Len(orders) :
    (/\ \A s \in Sessions :
          ~(sess[s].pc = "create_inserted" /\ sess[s].order_id = o)
     /\ orders[o].status # "paid"
     /\ orders[o].table_id \in DOMAIN cafe_tables)
    => cafe_tables[orders[o].table_id] = "occupied"

\* C20: in every quiescent state (no operation in progress) a table is
\* occupied exactly when at least one order that references it is not paid.
C20_OccupiedIffUnpaidOrder ==
  (\A s \in Sessions : sess[s].pc = "idle") =>
    \A t \in DOMAIN cafe_tables :
      (cafe_tables[t] = "occupied")
        <=> (\E o \in 1..Len(orders) :
               orders[o].table_id = t /\ orders[o].status # "paid")

\* C21: while an employee's verified flag is false, every mutating call by
\* that employee is refused: the order insert, the direct status update,
\* edit_order and both settlements.
C21_UnverifiedChangesNothing ==
  \A c \in Employees :
    ~verified[c] =>
      /\ \A t \in TableIds : CreateCheck(c, t) # "ok"
      /\ \A o \in OrderIds, st \in Status : StatusUpdateCheck(c, o, st) # "ok"
      /\ \A o \in OrderIds, p \in TotalInputs : edit_order_check(c, o, p) # "ok"
      /\ \A o \in OrderIds, m \in MethodInputs :
           confirm_payment_raises(c, o, m) # "ok"
      /\ \A o \in OrderIds, a \in SplitAmounts, b \in SplitAmounts :
           confirm_split_raises(c, o, a, b) # "ok"

\* C22: audit rows are only ever added; a step that creates an order, a
\* successful edit_order write and a committed settlement each add exactly one
\* row, naming the order and the performer; a direct status update or table
\* deletion adds none.
C22_OneAuditPerMutation ==
  [][LET added == audit_logs' (-) audit_logs
     IN  /\ audit_logs \sqsubseteq audit_logs'
         /\ Len(orders') > Len(orders) =>
              /\ BagCardinality(added) = 1
              /\ \A r \in BagToSet(added) :
                   /\ r.record_id = Len(orders')
                   /\ r.performed_by = orders'[Len(orders')].employee_id
         /\ \A s \in Sessions :
              (sess[s].pc = "edit_update" /\ sess'[s].pc = "idle" /\ orders' # orders) =>
                added = SetToBag({AuditRow("edit_order", sess[s].order_id,
                                           sess[s].caller)})
         /\ \A s \in Sessions :
              (sess[s].pc = "locked" /\ sess'[s].pc = "idle" /\ payments' # payments) =>
                added = SetToBag({SettleAudit(sess[s])})
         /\ (sess' = sess /\ Len(orders') = Len(orders) /\ verified' = verified)
              => added = EmptyBag]_vars

\* C23: no step of an edit_order call (its checks, its UPDATE and audit
\* insert, or its failure) creates or changes a payments row or a
\* daily_revenue row, whatever items, total, status and table it is given.
C23_EditLeavesLedger ==
  [][\A s \in Sessions :
       (\/ sess[s].pc = "edit_update" /\ sess'[s].pc = "idle"
        \/ sess[s].pc = "idle" /\ sess'[s].pc = "edit_update")
       => payments' = payments /\ daily_revenue' = daily_revenue]_vars

\* an order that has been edited and that has a payment recorded on it
C23_Witness ==
  \E o \in 1..Len(orders), c \in Users :
    /\ BagIn(AuditRow("edit_order", o, c), audit_logs)
    /\ PaymentsOf(o) # {}
    /\ daily_revenue # << >>

C25_DailySummary ==
  \A c \in Users, d \in Dates, E \in ExpenseTables :
    LET r == get_daily_summary(c, d, E)
        on(m) == {x \in BagToSet(payments) : x.created_at = d /\ x.method = m}
    IN  IF ~is_admin(c) THEN r.error # "ok"
        ELSE /\ r.error = "ok"
             /\ r.cash_revenue = SumAmounts(on("cash"), payments)
             /\ r.online_revenue = SumAmounts(on("online"), payments)
             /\ r.total_revenue = r.cash_revenue + r.online_revenue
             /\ r.total_expenses =
                  SumAmounts({x \in BagToSet(E) : x.created_at = d}, E)
             /\ r.net_profit = r.total_revenue - r.total_expenses
             /\ r.order_count =
                  Cardinality({o \in OrderIds :
                    \E x \in BagToSet(payments) :
                      x.created_at = d /\ x.order_id = o})

\* an order settled by a split into a cash and an online record on the same
\* date, which the summary of that date counts once
C25_Witness ==
  \E o \in 1..Len(orders), d \in Dates :
    /\ orders[o].payment_method = "split"
    /\ \E x, y \in PaymentsOf(o) :
         /\ x.method = "cash" /\ y.method = "online"
         /\ x.created_at = d /\ y.created_at = d
    /\ get_daily_summary("admin1", d, EmptyBag).order_count = 1
    /\ get_daily_summary("admin1", d, EmptyBag).total_revenue = 20

\* C26: when the order is missing, paid or not yet delivered, a settlement
\* call by an admin raises the order-state exception whatever its method or
\* amounts are.
C26_OrderStateFirst ==
  \A c \in Admins, o \in OrderIds :
    order_status_check(o) # "ok" =>
      /\ \A m \in MethodInputs :
           confirm_payment_raises(c, o, m) = order_status_check(o)
      /\ \A a \in SplitAmounts, b \in SplitAmounts :
           confirm_split_raises(c, o, a, b) = order_status_check(o)

\* C27: for every date d, cash_total of the daily_revenue row of d is the
\* sum of the amounts of the cash payment rows created on d, and online_total
\* the sum of the online rows; a date without a row counts as zero.
C27_RevenueAgreesWithLedger ==
  \A d \in Dates :
    LET has == d \in DOMAIN daily_revenue
        on(m) == {r \in BagToSet(payments) : r.created_at = d /\ r.method = m}
    IN  /\ (IF has THEN daily_revenue[d].cash_total ELSE 0)
             = SumAmounts(on("cash"), payments)
        /\ (IF has THEN daily_revenue[d].online_total ELSE 0)
             = SumAmounts(on("online"), payments)

\* a date on which a cash settlement and an online settlement were recorded,
\* each in full
C27_Witness ==
  \E d \in DOMAIN daily_revenue :
    /\ daily_revenue[d].cash_total = 20
    /\ daily_revenue[d].online_total = 20
    /\ \E r \in BagToSet(payments) : r.created_at = d /\ r.method = "cash"
    /\ \E r \in BagToSet(payments) : r.created_at = d /\ r.method = "online"

\* C28: an employee's direct update of an order's status takes effect
\* exactly when the employee is verified and created the order, the order is
\* taken or prepared, and the new status is not paid; in every other case it
\* changes nothing.
C28_EmployeeDirectUpdate ==
  \A c \in Employees, o \in OrderIds, st \in Status :
    (StatusUpdateCheck(c, o, st) = "ok")
      <=> /\ Exists(o)
          /\ is_verified(c)
          /\ orders[o].employee_id = c
          /\ orders[o].status \in {"taken", "prepared"}
          /\ st # "paid"

\* an order emp1 created and that is prepared: emp1 can deliver it and cannot
\* make it paid
C28_Witness ==
  \E o \in 1..Len(orders) :
    /\ orders[o].employee_id = "emp1"
    /\ orders[o].status = "prepared"
    /\ StatusUpdateCheck("emp1", o, "delivered") = "ok"
    /\ StatusUpdateCheck("emp1", o, "paid") = "RlsDenied"

\* C29: after a step that moves an unpaid order from table A to a
\* different table B (no order creation being in progress), B is occupied,
\* and A is empty unless another unpaid order still references A.
C29_OccupancyFollowsOrder ==
  [][\A o \in 1..Len(orders) :
       LET A == orders[o].table_id
           B == orders'[o].table_id
       IN  (/\ Len(orders') = Len(orders)
            /\ \A s \in Sessions : sess[s].pc # "create_inserted"
            /\ A # Null /\ B # Null /\ A # B
            /\ orders'[o].status # "paid")
           => /\ cafe_tables'[B] = "occupied"
              /\ \/ cafe_tables'[A] = "empty"
                 \/ \E x \in 1..Len(orders') :
                      /\ x # o
                      /\ orders'[x].table_id = A
                      /\ orders'[x].status # "paid"]_vars

\* C30: for every user and every order, canEditOrder(order) is true exactly
\* when edit_order's checks on the order (paid, owner, delivered) let that
\* user's edit through.
C30_EditGateAgrees ==
  \A c \in Users, o \in 1..Len(orders) :
    canEditOrder(c, orders[o]) <=> (edit_order_check(c, o, 20) = "ok")

====
